---- MODULE Spec2Model ----
(***************************************************************************)
(* A model of the printer scanner of src/src/main.rs: the CIDR host        *)
(* enumeration, the bounded-concurrency stream of scan_target futures, the *)
(* per-host probe chain and the response heuristics of the five protocol   *)
(* probes.                                                                 *)
(*                                                                         *)
(* Text is modelled as Rust models it: a response is a sequence of bytes   *)
(* (0..255), a String is a sequence of Unicode scalar values, and len() is *)
(* the length of the UTF-8 encoding.  An IPv4 address is its four octets.  *)
(***************************************************************************)
EXTENDS Integers, Sequences, FiniteSets, TLC

(***************************************************************************)
(* Option<T>: None is the empty sequence, Some(x) the one-element one.     *)
(***************************************************************************)
None == <<>>

Some(x) == <<x>>

IsSome(o) == o # <<>>

Unwrap(o) == o[1]

(***************************************************************************)
(* Characters and strings.                                                 *)
(***************************************************************************)
\* U+FFFD, what String::from_utf8_lossy puts for an ill-formed byte.
REPLACEMENT_CHARACTER == 65533

\* The bytes this model decodes: ASCII, the two-byte lead bytes 0xC2..0xDF,
\* continuation bytes 0x80..0xBF and the never-valid bytes 0xC0, 0xC1 and
\* 0xF5..0xFF (lead bytes of three- and four-byte sequences are left out).
DecodableBytes == (0..223) \cup (245..255)

\* String::from_utf8_lossy on a byte sequence over DecodableBytes.
RECURSIVE from_utf8_lossy(_)
from_utf8_lossy(b) ==
    IF b = <<>> THEN <<>>
    ELSE IF b[1] < 128 THEN <<b[1]>> \o from_utf8_lossy(Tail(b))
    ELSE IF b[1] \in 194..223 /\ Len(b) >= 2 /\ b[2] \in 128..191
         THEN <<(b[1] - 192) * 64 + (b[2] - 128)>>
                  \o from_utf8_lossy(SubSeq(b, 3, Len(b)))
    ELSE <<REPLACEMENT_CHARACTER>> \o from_utf8_lossy(Tail(b))

\* char::len_utf8
len_utf8(c) == IF c < 128 THEN 1 ELSE IF c < 2048 THEN 2 ELSE IF c < 65536 THEN 3 ELSE 4

\* str::len: the number of bytes of the UTF-8 encoding.
RECURSIVE StrLen(_)
StrLen(s) == IF s = <<>> THEN 0 ELSE len_utf8(s[1]) + StrLen(Tail(s))

\* char::is_ascii
is_ascii(c) == c < 128

\* char::is_control (general category Cc)
is_control(c) == c \in (0..31) \cup (127..159)

\* char::is_whitespace (property White_Space), for the characters up to U+FFFD
is_whitespace(c) ==
    c \in (9..13) \cup {32, 133, 160, 5760, 8232, 8233, 8239, 8287, 12288}
          \cup (8192..8202)

\* char::is_alphabetic (property Alphabetic), for U+0000..U+00FF and U+FFFD
is_alphabetic(c) ==
    c \in (65..90) \cup (97..122) \cup {170, 181, 186}
          \cup (192..214) \cup (216..246) \cup (248..255)

\* str::trim_start
RECURSIVE trim_start(_)
trim_start(s) ==
    IF s # <<>> /\ is_whitespace(s[1]) THEN trim_start(Tail(s)) ELSE s

\* str::trim_end
RECURSIVE trim_end(_)
trim_end(s) ==
    IF s # <<>> /\ is_whitespace(s[Len(s)])
    THEN trim_end(SubSeq(s, 1, Len(s) - 1)) ELSE s

\* str::trim
trim(s) == trim_end(trim_start(s))

\* s starts with the non-empty pattern p
StartsWith(s, p) == Len(s) >= Len(p) /\ SubSeq(s, 1, Len(p)) = p

\* str::contains with a string pattern
RECURSIVE contains(_, _)
contains(s, p) ==
    IF Len(s) < Len(p) THEN FALSE
    ELSE IF StartsWith(s, p) THEN TRUE
    ELSE contains(Tail(s), p)

\* str::replace(p, r): every non-overlapping match of p, left to right
RECURSIVE replace(_, _, _)
replace(s, p, r) ==
    IF s = <<>> THEN <<>>
    ELSE IF StartsWith(s, p) THEN r \o replace(SubSeq(s, Len(p) + 1, Len(s)), p, r)
    ELSE <<s[1]>> \o replace(Tail(s), p, r)

\* str::replace(['\r', '\n'], " "): every character of the set cs
RECURSIVE replace_chars(_, _, _)
replace_chars(s, cs, r) ==
    IF s = <<>> THEN <<>>
    ELSE (IF s[1] \in cs THEN r ELSE <<s[1]>>) \o replace_chars(Tail(s), cs, r)

\* str::split(c): the fields between the separators, empty ones included
RECURSIVE split(_, _)
split(s, c) ==
    IF \A i \in 1..Len(s) : s[i] # c THEN <<s>>
    ELSE LET i == CHOOSE k \in 1..Len(s) :
                      s[k] = c /\ \A j \in 1..(k - 1) : s[j] # c
         IN  <<SubSeq(s, 1, i - 1)>> \o split(SubSeq(s, i + 1, Len(s)), c)

\* str::lines: the text is cut after every "\n"; a line that ends in "\n"
\* loses it and then one "\r" before it; there is no last empty line after a
\* final "\n".
lines(s) ==
    LET parts == split(s, 10)
        n     == Len(parts)
        kept  == IF parts[n] = <<>> THEN SubSeq(parts, 1, n - 1) ELSE parts
        strip(l) == IF l # <<>> /\ l[Len(l)] = 13
                    THEN SubSeq(l, 1, Len(l) - 1) ELSE l
    IN  [i \in 1..Len(kept) |-> IF i < n THEN strip(kept[i]) ELSE kept[i]]

\* max_by_key_len returning the FIRST element among those of maximal key.
MutMaxByKeyLen(parts) ==
    LET i == CHOOSE k \in 1..Len(parts) :
                 /\ \A j \in 1..Len(parts) : StrLen(parts[j]) <= StrLen(parts[k])
                 /\ \A j \in 1..(k - 1) : StrLen(parts[j]) < StrLen(parts[k])
    IN  parts[i]

\* Iterator::max_by_key(|p| p.len()) on a non-empty sequence of strings: the
\* LAST element among those of maximal key.
max_by_key_len(parts) ==
    LET i == CHOOSE k \in 1..Len(parts) :
                 /\ \A j \in 1..Len(parts) : StrLen(parts[j]) <= StrLen(parts[k])
                 /\ \A j \in (k + 1)..Len(parts) : StrLen(parts[j]) < StrLen(parts[k])
    IN  parts[i]

\* find_non_blank searching from the back: the LAST line that is not blank.
MutFindNonBlank(ls) ==
    IF \A i \in 1..Len(ls) : trim(ls[i]) = <<>> THEN None
    ELSE LET i == CHOOSE k \in 1..Len(ls) :
                      trim(ls[k]) # <<>> /\ \A j \in (k + 1)..Len(ls) : trim(ls[j]) = <<>>
         IN  Some(ls[i])

\* Iterator::find(|l| !l.trim().is_empty()) on the lines of a string
find_non_blank(ls) ==
    IF \A i \in 1..Len(ls) : trim(ls[i]) = <<>> THEN None
    ELSE LET i == CHOOSE k \in 1..Len(ls) :
                      trim(ls[k]) # <<>> /\ \A j \in 1..(k - 1) : trim(ls[j]) = <<>>
         IN  Some(ls[i])

(***************************************************************************)
(* String literals of the source, as sequences of characters.              *)
(***************************************************************************)
\* "\""
QUOTE == <<34>>

\* " "
SPACE == <<32>>

\* ","
COMMA == 44

\* "ID"
STR_ID == <<73, 68>>

\* "ID="
STR_ID_EQ == <<73, 68, 61>>

\* "ID ="
STR_ID_SP_EQ == <<73, 68, 32, 61>>

\* "Unknown PJL"
STR_UNKNOWN_PJL == <<85, 110, 107, 110, 111, 119, 110, 32, 80, 74, 76>>

\* "Zebra "
STR_ZEBRA == <<90, 101, 98, 114, 97, 32>>

\* "Zebra ZPL ("
STR_ZEBRA_ZPL == <<90, 101, 98, 114, 97, 32, 90, 80, 76, 32, 40>>

\* ")"
STR_CLOSE == <<41>>

\* "Raw: "
STR_RAW == <<82, 97, 119, 58, 32>>

(***************************************************************************)
(* The protocol probes.  What the peer does to one probe is an outcome     *)
(* [kind, data]: the connect fails or times out, the write fails, the read *)
(* fails or times out, or the read returns the bytes data (n = Len(data),  *)
(* n = 0 at end of stream).  The SNMP exchange fails to open its session,  *)
(* fails or times out in get, answers with something that is no octet      *)
(* string, or answers with the octet string data.                          *)
(***************************************************************************)
ConnectFailures == {"connect_err", "connect_timeout"}

ReadFailures == {"read_err", "read_timeout"}

\* get_zebra_sgd_info: the model, from the bytes of a read of n > 0 bytes
sgd_model(buffer) ==
    LET raw == trim(from_utf8_lossy(buffer)) IN
    IF /\ raw # <<>>
       /\ StrLen(raw) > 2
       /\ \A i \in 1..Len(raw) : is_ascii(raw[i]) /\ ~is_control(raw[i])
    THEN Some(STR_ZEBRA \o replace(raw, QUOTE, <<>>))
    ELSE None

\* get_pjl_info: the model, from the bytes of a read of n > 0 bytes
pjl_model(buffer) ==
    LET raw == from_utf8_lossy(buffer) IN
    IF contains(raw, STR_ID)
    THEN LET clean == trim(replace(replace(replace(raw, STR_ID_EQ, <<>>),
                                           STR_ID_SP_EQ, <<>>), QUOTE, <<>>))
             found == find_non_blank(lines(clean))
         IN  Some(IF IsSome(found) THEN Unwrap(found) ELSE STR_UNKNOWN_PJL)
    ELSE None

\* get_zpl_hi_info: the field picked from a response that contains a comma
zpl_longest(raw) == max_by_key_len(split(raw, COMMA))

\* get_zpl_hi_info: the model, from the bytes of a read of n > 0 bytes
zpl_model(buffer) ==
    LET raw == from_utf8_lossy(buffer) IN
    IF contains(raw, <<COMMA>>)
    THEN LET longest == zpl_longest(raw) IN
         IF StrLen(longest) > 3
         THEN Some(STR_ZEBRA_ZPL \o trim(longest) \o STR_CLOSE)
         ELSE None
    ELSE None

\* raw_banner with the length compared by >= 3.
MutRawBanner(buffer) ==
    LET raw == trim(replace_chars(from_utf8_lossy(buffer), {13, 10}, SPACE)) IN
    IF StrLen(raw) >= 3 /\ \E i \in 1..Len(raw) : is_alphabetic(raw[i])
    THEN Some(raw)
    ELSE None

\* get_raw_banner: the banner, from the bytes of a read of n > 0 bytes
raw_banner(buffer) ==
    LET raw == trim(replace_chars(from_utf8_lossy(buffer), {13, 10}, SPACE)) IN
    IF StrLen(raw) > 3 /\ \E i \in 1..Len(raw) : is_alphabetic(raw[i])
    THEN Some(raw)
    ELSE None

get_zebra_sgd_info(o) ==
    IF o.kind = "data" /\ Len(o.data) > 0 THEN sgd_model(o.data) ELSE None

get_pjl_info(o) ==
    IF o.kind = "data" /\ Len(o.data) > 0 THEN pjl_model(o.data) ELSE None

get_zpl_hi_info(o) ==
    IF o.kind = "data" /\ Len(o.data) > 0 THEN zpl_model(o.data) ELSE None

get_snmp_info(o) ==
    IF o.kind = "octets" THEN Some(trim(from_utf8_lossy(o.data))) ELSE None

get_raw_banner(o) ==
    IF o.kind = "data" /\ Len(o.data) > 0 THEN raw_banner(o.data) ELSE None

\* What probe p returns for the peer's outcome o.
ProbeResult(p, o) ==
    CASE p = "sgd"  -> get_zebra_sgd_info(o)
      [] p = "pjl"  -> get_pjl_info(o)
      [] p = "zpl"  -> get_zpl_hi_info(o)
      [] p = "snmp" -> get_snmp_info(o)
      [] p = "raw"  -> get_raw_banner(o)

\* NextProbe with the SNMP step left out: the banner is tried right after
\* ZPL.
MutNextProbe(p) ==
    CASE p = "sgd"  -> Some("pjl")
      [] p = "pjl"  -> Some("zpl")
      [] p = "zpl"  -> Some("raw")
      [] p = "snmp" -> Some("raw")
      [] p = "raw"  -> None

\* scan_target: the probe tried after probe p returned None (None after the
\* last one).
NextProbe(p) ==
    CASE p = "sgd"  -> Some("pjl")
      [] p = "pjl"  -> Some("zpl")
      [] p = "zpl"  -> Some("snmp")
      [] p = "snmp" -> Some("raw")
      [] p = "raw"  -> None

\* FirstProbe with PJL, the first probe function of the file, tried first.
MutFirstProbe == "pjl"

\* scan_target: the first probe after the reachability check
FirstProbe == "sgd"

Probes == {"sgd", "pjl", "zpl", "snmp", "raw"}

\* scan_target: the source tag of a record made from probe p
SourceTag(p) ==
    CASE p = "sgd"  -> "SGD (Zebra)"
      [] p = "pjl"  -> "PJL"
      [] p = "zpl"  -> "ZPL"
      [] p = "snmp" -> "SNMP"
      [] p = "raw"  -> "Raw Banner"

\* scan_target: the record made from the model m that probe p returned
PrinterInfo(ip, p, m) ==
    [ip |-> ip, model |-> IF p = "raw" THEN STR_RAW \o m ELSE m, source |-> SourceTag(p)]

(***************************************************************************)
(* IPv4 networks (ipnet::Ipv4Net as main uses it): an address is its four  *)
(* octets, a network an address and a prefix length.                       *)
(***************************************************************************)
Pow2(k) == CASE k = 0 -> 1 [] k = 1 -> 2 [] k = 2 -> 4 [] k = 3 -> 8 [] k = 4 -> 16
             [] k = 5 -> 32 [] k = 6 -> 64 [] k = 7 -> 128 [] k = 8 -> 256

\* The number of host bits in octet i (1..4) of a network of prefix length len.
HostBits(len, i) ==
    LET netbits == len - 8 * (i - 1) IN
    IF netbits <= 0 THEN 8 ELSE IF netbits >= 8 THEN 0 ELSE 8 - netbits

\* Ipv4Net::network: the host bits cleared
network(net) ==
    [i \in 1..4 |-> net.addr[i] - (net.addr[i] % Pow2(HostBits(net.prefix_len, i)))]

\* Ipv4Net::broadcast: the host bits set
broadcast(net) ==
    [i \in 1..4 |-> network(net)[i] + Pow2(HostBits(net.prefix_len, i)) - 1]

\* Ipv4Addr's order: by octets, the first octet the most significant
AddrLess(a, b) ==
    \E i \in 1..4 : a[i] < b[i] /\ \A j \in 1..(i - 1) : a[j] = b[j]

\* The address after a (saturating at 255.255.255.255)
add_one(a) ==
    IF a[4] < 255 THEN <<a[1], a[2], a[3], a[4] + 1>>
    ELSE IF a[3] < 255 THEN <<a[1], a[2], a[3] + 1, 0>>
    ELSE IF a[2] < 255 THEN <<a[1], a[2] + 1, 0, 0>>
    ELSE IF a[1] < 255 THEN <<a[1] + 1, 0, 0, 0>>
    ELSE a

\* The address before a (saturating at 0.0.0.0)
sub_one(a) ==
    IF a[4] > 0 THEN <<a[1], a[2], a[3], a[4] - 1>>
    ELSE IF a[3] > 0 THEN <<a[1], a[2], a[3] - 1, 255>>
    ELSE IF a[2] > 0 THEN <<a[1], a[2] - 1, 255, 255>>
    ELSE IF a[1] > 0 THEN <<a[1] - 1, 255, 255, 255>>
    ELSE a

\* hosts without the exclusion: the whole range, whatever the prefix length.
MutHosts(net) == [start |-> network(net), end |-> broadcast(net)]

\* Ipv4Net::hosts: the range of addresses from start to end, both included;
\* network and broadcast address are left out when the prefix is shorter than
\* 31 bits.
hosts(net) ==
    IF net.prefix_len < 31
    THEN [start |-> add_one(network(net)), end |-> sub_one(broadcast(net))]
    ELSE [start |-> network(net), end |-> broadcast(net)]

\* Ipv4AddrRange: whether next() yields an address
HasNext(range) == range.start = range.end \/ AddrLess(range.start, range.end)

\* Ipv4AddrRange::next: the range left after it yielded range.start
AfterNext(range) ==
    IF range.start = range.end
    THEN [start |-> <<0, 0, 0, 1>>, end |-> <<0, 0, 0, 0>>]
    ELSE [start |-> add_one(range.start), end |-> range.end]

\* args.network.parse::<Ipv4Net>(): a descriptor is Ok when it has the form
\* a.b.c.d/len with octets up to 255 and len up to 32.
parse(d) ==
    IF /\ d.form = "v4/len"
       /\ \A i \in 1..4 : d.addr[i] \in 0..255
       /\ d.len \in 0..32
    THEN [ok |-> TRUE, net |-> [addr |-> d.addr, prefix_len |-> d.len]]
    ELSE [ok |-> FALSE]

(***************************************************************************)
(* results.sort_by_key(|k| k.ip): a stable sort by address.                *)
(***************************************************************************)
\* insert_sorted without the comparison: the record is put last.
MutInsertSorted(sorted, r) == Append(sorted, r)

RECURSIVE insert_sorted(_, _)
insert_sorted(sorted, r) ==
    IF sorted = <<>> THEN <<r>>
    ELSE IF AddrLess(r.ip, sorted[Len(sorted)].ip)
         THEN insert_sorted(SubSeq(sorted, 1, Len(sorted) - 1), r)
                  \o <<sorted[Len(sorted)]>>
    ELSE Append(sorted, r)

\* sort_by_key left out: the results stay in completion order.
MutSortByKey(v) == v

RECURSIVE sort_by_key(_)
sort_by_key(v) ==
    IF v = <<>> THEN <<>>
    ELSE insert_sorted(sort_by_key(SubSeq(v, 1, Len(v) - 1)), v[Len(v)])

(***************************************************************************)
(* Bounds of the model.                                                    *)
(***************************************************************************)
\* The most addresses one run pulls from net.hosts().
MaxScan == 256

\* The largest concurrency limit.
MaxConc == 2

\* The most live hosts on the network.
MaxLive == 2

\* The number of runs of the program.
MaxRuns == 2

\* The longest response drawn from all byte sequences over SomeBytes.
MaxLen == 4

\* The most comma-separated fields of a drawn ZPL response.
MaxFields == 3

(***************************************************************************)
(* The state.                                                              *)
(*   args       the parsed command line (struct Args)                      *)
(*   behav      the network: what each live host does to the reachability  *)
(*              check and to each probe; an address outside its domain     *)
(*              does not answer                                            *)
(*   mainPc     where main is: "start", "scanning" (in collect().await),   *)
(*              "done" (returned after the report), "error" (returned      *)
(*              after the parse error)                                     *)
(*   stderr     whether the parse error was printed                        *)
(*   iter       the Ipv4AddrRange of net.hosts() left to pull              *)
(*   queue      the addresses whose scan_target future is in the           *)
(*              in-progress queue of buffer_unordered                      *)
(*   pc, cur    per pulled address: where its scan_target future is, and   *)
(*              the probe it is in                                         *)
(*   conn       per pulled address: the TcpStreams its future holds, each  *)
(*              with the function that owns it ("reach" for is_port_open,  *)
(*              else the probe) and its state ("connecting" or "open")     *)
(*   reach      per pulled address: what is_port_open returned             *)
(*   calls      per pulled address: how often is_port_open ("reach") and   *)
(*              each probe was called                                      *)
(*   io         per pulled address: how often a connect was begun by       *)
(*              is_port_open ("reach") and by each probe, and how often    *)
(*              each probe began a read                                    *)
(*   worker     per pulled address: the spawn_blocking closure of          *)
(*              get_snmp_info                                              *)
(*   ret        per pulled address: what scan_target returned              *)
(*   collected  the Vec collect() builds, in the order of completion       *)
(*   report     the Vec results as main prints it, after sort_by_key       *)
(*              (None before)                                              *)
(*   run        the number of this run of the program                      *)
(*   prev       the report and the Vec collected of the run before         *)
(*              (None in the first run)                                    *)
(***************************************************************************)
VARIABLES args, behav, mainPc, stderr, iter, queue, pc, cur, conn, reach,
          calls, io, worker, ret, collected, report, run, prev

vars == <<args, behav, mainPc, stderr, iter, queue, pc, cur, conn, reach,
          calls, io, worker, ret, collected, report, run, prev>>

\* The per-address variables.
taskVars == <<pc, cur, conn, reach, calls, io, worker, ret>>

\* A host that does not answer at all.
DeadHost ==
    [reach |-> "timeout",
     sgd   |-> [kind |-> "connect_timeout", data |-> <<>>],
     pjl   |-> [kind |-> "connect_timeout", data |-> <<>>],
     zpl   |-> [kind |-> "connect_timeout", data |-> <<>>],
     snmp  |-> [kind |-> "get_err", data |-> <<>>],
     raw   |-> [kind |-> "connect_timeout", data |-> <<>>]]

HostOf(ip) == IF ip \in DOMAIN behav THEN behav[ip] ELSE DeadHost

\* The addresses pulled from net.hosts() so far.
Pulled == DOMAIN pc

NoTasks == [ip \in {} |-> ip]

\* f with the new address ip mapped to v
With(f, ip, v) == [a \in (DOMAIN f) \cup {ip} |-> IF a = ip THEN v ELSE f[a]]

\* The state main starts a run in.
Fresh ==
    /\ mainPc = "start"
    /\ stderr = FALSE
    /\ iter = [start |-> <<0, 0, 0, 1>>, end |-> <<0, 0, 0, 0>>]
    /\ queue = {}
    /\ pc = NoTasks /\ cur = NoTasks /\ conn = NoTasks /\ reach = NoTasks
    /\ calls = NoTasks /\ io = NoTasks /\ worker = NoTasks /\ ret = NoTasks
    /\ collected = <<>>
    /\ report = None

(***************************************************************************)
(* main                                                                    *)
(***************************************************************************)
\* Start without the return after the error message: main goes on to scan
\* an empty range.
MutStart ==
    /\ mainPc = "start"
    /\ mainPc' = "scanning"
    /\ LET parsed == parse(args.network) IN
       IF parsed.ok
       THEN /\ iter' = hosts(parsed.net)
            /\ UNCHANGED stderr
       ELSE /\ stderr' = TRUE
            /\ UNCHANGED iter
    /\ UNCHANGED <<args, behav, queue, taskVars, collected, report, run, prev>>

\* main, lines 189-202: parse the descriptor; on an error print it and
\* return, else build the stream over net.hosts().
Start ==
    /\ mainPc = "start"
    /\ LET parsed == parse(args.network) IN
       IF parsed.ok
       THEN /\ mainPc' = "scanning"
            /\ iter' = hosts(parsed.net)
            /\ UNCHANGED stderr
       ELSE /\ mainPc' = "error"
            /\ stderr' = TRUE
            /\ UNCHANGED iter
    /\ UNCHANGED <<args, behav, queue, taskVars, collected, report, run, prev>>

\* CanPull with the queue compared by <= : one future too many.
MutCanPull ==
    /\ mainPc = "scanning"
    /\ Cardinality(queue) <= args.concurrency
    /\ HasNext(iter)
    /\ Cardinality(Pulled) < MaxScan

\* buffer_unordered fills its queue before it polls any future in it.
CanPull ==
    /\ mainPc = "scanning"
    /\ Cardinality(queue) < args.concurrency
    /\ HasNext(iter)
    /\ Cardinality(Pulled) < MaxScan

\* buffer_unordered(args.concurrency): pull the next address and push its
\* scan_target future, not yet polled, on the queue.
Pull ==
    /\ CanPull
    /\ LET ip == iter.start IN
       /\ iter' = AfterNext(iter)
       /\ queue' = queue \cup {ip}
       /\ pc' = With(pc, ip, "queued")
       /\ cur' = With(cur, ip, "none")
       /\ conn' = With(conn, ip, {})
       /\ reach' = With(reach, ip, "pending")
       /\ calls' = With(calls, ip, [p \in Probes \cup {"reach"} |-> 0])
       /\ io' = With(io, ip, [connect |-> [p \in Probes \cup {"reach"} |-> 0],
                              read    |-> [p \in Probes |-> 0]])
       /\ worker' = With(worker, ip, "idle")
       /\ ret' = With(ret, ip, None)
    /\ UNCHANGED <<args, behav, mainPc, stderr, collected, report, run, prev>>

\* Polls with the SNMP closure run inline in the future instead of on a
\* blocking worker: while it runs, the main task polls nothing.
MutPolls(ip) ==
    /\ mainPc = "scanning" /\ ip \in queue /\ ~CanPull
    /\ \A other \in queue : worker[other] # "running"

\* The main task polls the future of ip.
Polls(ip) == mainPc = "scanning" /\ ip \in queue /\ ~CanPull

\* The function the future of ip is in: is_port_open or a probe.
Owner(ip) == IF pc[ip] = "reach" THEN "reach" ELSE cur[ip]

\* Drop with the stream outliving the function that opened it.
MutDrop(streams, f) == streams

\* Function f returns: the stream it holds (the temporary of the match in
\* is_port_open, the local stream of a probe, the pending connect under an
\* expired timeout) is dropped, which closes it.
Drop(streams, f) == {c \in streams : c.of # f}

\* scan_target calls probe p after the function before it returned: the
\* probe begins its connect, get_snmp_info hands its closure to a blocking
\* worker.
Begin(ip, p) ==
    /\ cur' = [cur EXCEPT ![ip] = p]
    /\ calls' = [calls EXCEPT ![ip][p] = @ + 1]
    /\ IF p = "snmp"
       THEN /\ pc' = [pc EXCEPT ![ip] = "snmp"]
            /\ conn' = [conn EXCEPT ![ip] = Drop(@, Owner(ip))]
            /\ worker' = [worker EXCEPT ![ip] = "running"]
            /\ UNCHANGED io
       ELSE /\ pc' = [pc EXCEPT ![ip] = "connect"]
            /\ conn' = [conn EXCEPT ![ip] =
                            Drop(@, Owner(ip)) \cup {[of |-> p, state |-> "connecting"]}]
            /\ io' = [io EXCEPT ![ip].connect[p] = @ + 1]
            /\ UNCHANGED worker
    /\ UNCHANGED <<queue, ret, collected>>

\* Return with the Vec overwritten by the new record instead of extended.
MutReturn(ip, r) ==
    /\ pc' = [pc EXCEPT ![ip] = "done"]
    /\ conn' = [conn EXCEPT ![ip] = Drop(@, Owner(ip))]
    /\ ret' = [ret EXCEPT ![ip] = r]
    /\ queue' = queue \ {ip}
    /\ collected' = IF IsSome(r) THEN <<Unwrap(r)>> ELSE collected
    /\ UNCHANGED <<cur, calls, io, worker>>

\* scan_target returns r: the future leaves the queue and filter_map and
\* collect take its output.
Return(ip, r) ==
    /\ pc' = [pc EXCEPT ![ip] = "done"]
    /\ conn' = [conn EXCEPT ![ip] = Drop(@, Owner(ip))]
    /\ ret' = [ret EXCEPT ![ip] = r]
    /\ queue' = queue \ {ip}
    /\ collected' = IF IsSome(r) THEN Append(collected, Unwrap(r)) ELSE collected
    /\ UNCHANGED <<cur, calls, io, worker>>

\* Advance with the failure handed up, as the ? operator would: a probe
\* that returned None ends scan_target.
MutAdvance(ip, p) == Return(ip, None)

\* Probe p returned None to scan_target.
Advance(ip, p) ==
    IF IsSome(NextProbe(p)) THEN Begin(ip, Unwrap(NextProbe(p))) ELSE Return(ip, None)

\* Probe p returned r to scan_target.
Returned(ip, p, r) ==
    IF IsSome(r) THEN Return(ip, Some(PrinterInfo(ip, p, Unwrap(r)))) ELSE Advance(ip, p)

\* scan_target is polled first: is_port_open begins its connect.
ReachStart(ip) ==
    /\ Polls(ip)
    /\ pc[ip] = "queued"
    /\ pc' = [pc EXCEPT ![ip] = "reach"]
    /\ conn' = [conn EXCEPT ![ip] = @ \cup {[of |-> "reach", state |-> "connecting"]}]
    /\ calls' = [calls EXCEPT ![ip]["reach"] = @ + 1]
    /\ io' = [io EXCEPT ![ip].connect["reach"] = @ + 1]
    /\ UNCHANGED <<args, behav, mainPc, stderr, iter, queue, cur, reach, worker,
                   ret, collected, report, run, prev>>

\* ReachResolve with the result of is_port_open ignored: the probes are
\* tried on a closed port too.
MutReachResolve(ip) ==
    /\ Polls(ip)
    /\ pc[ip] = "reach"
    /\ reach' = [reach EXCEPT ![ip] = IF HostOf(ip).reach = "ok" THEN "open" ELSE "closed"]
    /\ Begin(ip, FirstProbe)
    /\ UNCHANGED <<args, behav, mainPc, stderr, iter, report, run, prev>>

\* is_port_open: the connect resolved; the stream, if any, is dropped.
ReachResolve(ip) ==
    /\ Polls(ip)
    /\ pc[ip] = "reach"
    /\ IF HostOf(ip).reach = "ok"
       THEN /\ reach' = [reach EXCEPT ![ip] = "open"]
            /\ Begin(ip, FirstProbe)
       ELSE /\ reach' = [reach EXCEPT ![ip] = "closed"]
            /\ Return(ip, None)
    /\ UNCHANGED <<args, behav, mainPc, stderr, iter, report, run, prev>>

\* ProbeConnect with one more try after a connect that failed or timed out.
MutProbeConnect(ip) ==
    /\ Polls(ip)
    /\ pc[ip] = "connect"
    /\ IF HostOf(ip)[cur[ip]].kind \in ConnectFailures
       THEN IF io[ip].connect[cur[ip]] < 2
            THEN /\ io' = [io EXCEPT ![ip].connect[cur[ip]] = @ + 1]
                 /\ UNCHANGED <<queue, pc, cur, conn, calls, worker, ret, collected>>
            ELSE Advance(ip, cur[ip])
       ELSE /\ conn' = [conn EXCEPT ![ip] =
                            {IF c.of = cur[ip] THEN [c EXCEPT !.state = "open"] ELSE c : c \in @}]
            /\ pc' = [pc EXCEPT ![ip] = IF cur[ip] = "raw" THEN "read" ELSE "write"]
            /\ io' = [io EXCEPT ![ip].read[cur[ip]] = IF cur[ip] = "raw" THEN @ + 1 ELSE @]
            /\ UNCHANGED <<queue, cur, calls, worker, ret, collected>>
    /\ UNCHANGED <<args, behav, mainPc, stderr, iter, reach, report, run, prev>>

\* A probe's connect resolved; get_raw_banner goes on to its read, the others
\* to their write.
ProbeConnect(ip) ==
    /\ Polls(ip)
    /\ pc[ip] = "connect"
    /\ IF HostOf(ip)[cur[ip]].kind \in ConnectFailures
       THEN Advance(ip, cur[ip])
       ELSE /\ conn' = [conn EXCEPT ![ip] =
                            {IF c.of = cur[ip] THEN [c EXCEPT !.state = "open"] ELSE c : c \in @}]
            /\ pc' = [pc EXCEPT ![ip] = IF cur[ip] = "raw" THEN "read" ELSE "write"]
            /\ io' = [io EXCEPT ![ip].read[cur[ip]] = IF cur[ip] = "raw" THEN @ + 1 ELSE @]
            /\ UNCHANGED <<queue, cur, calls, worker, ret, collected>>
    /\ UNCHANGED <<args, behav, mainPc, stderr, iter, reach, report, run, prev>>

\* A probe's write_all resolved.
ProbeWrite(ip) ==
    /\ Polls(ip)
    /\ pc[ip] = "write"
    /\ IF HostOf(ip)[cur[ip]].kind = "write_err"
       THEN Advance(ip, cur[ip])
       ELSE /\ pc' = [pc EXCEPT ![ip] = "read"]
            /\ io' = [io EXCEPT ![ip].read[cur[ip]] = @ + 1]
            /\ UNCHANGED <<queue, cur, conn, calls, worker, ret, collected>>
    /\ UNCHANGED <<args, behav, mainPc, stderr, iter, reach, report, run, prev>>

\* ProbeRead with the read awaited without timeout(): a peer that never
\* sends leaves it pending.
MutProbeRead(ip) ==
    /\ Polls(ip)
    /\ pc[ip] = "read"
    /\ HostOf(ip)[cur[ip]].kind # "read_timeout"
    /\ Returned(ip, cur[ip], ProbeResult(cur[ip], HostOf(ip)[cur[ip]]))
    /\ UNCHANGED <<args, behav, mainPc, stderr, iter, reach, report, run, prev>>

\* A probe's read resolved, or its timeout expired.
ProbeRead(ip) ==
    /\ Polls(ip)
    /\ pc[ip] = "read"
    /\ Returned(ip, cur[ip], ProbeResult(cur[ip], HostOf(ip)[cur[ip]]))
    /\ UNCHANGED <<args, behav, mainPc, stderr, iter, reach, report, run, prev>>

\* get_snmp_info: the blocking worker ran the closure to its end.
SnmpWorker(ip) ==
    /\ ip \in Pulled
    /\ worker[ip] = "running"
    /\ worker' = [worker EXCEPT ![ip] = "finished"]
    /\ UNCHANGED <<args, behav, mainPc, stderr, iter, queue, pc, cur, conn, reach,
                   calls, io, ret, collected, report, run, prev>>

\* get_snmp_info: the join handle resolved.
SnmpJoin(ip) ==
    /\ Polls(ip)
    /\ pc[ip] = "snmp"
    /\ worker[ip] = "finished"
    /\ Returned(ip, "snmp", ProbeResult("snmp", HostOf(ip).snmp))
    /\ UNCHANGED <<args, behav, mainPc, stderr, iter, reach, report, run, prev>>

\* main, lines 204-221: the stream ended; sort the results and print them.
Finish ==
    /\ mainPc = "scanning"
    /\ ~HasNext(iter)
    /\ queue = {}
    /\ mainPc' = "done"
    /\ report' = Some(sort_by_key(collected))
    /\ UNCHANGED <<args, behav, stderr, iter, queue, taskVars, collected, run, prev>>

\* The program is run again, with the same command line on the same network.
Rerun ==
    /\ mainPc = "done"
    /\ run < MaxRuns
    /\ run' = run + 1
    /\ prev' = Some([report |-> Unwrap(report), collected |-> collected])
    /\ mainPc' = "start"
    /\ stderr' = FALSE
    /\ iter' = [start |-> <<0, 0, 0, 1>>, end |-> <<0, 0, 0, 0>>]
    /\ queue' = {}
    /\ pc' = NoTasks /\ cur' = NoTasks /\ conn' = NoTasks /\ reach' = NoTasks
    /\ calls' = NoTasks /\ io' = NoTasks /\ worker' = NoTasks /\ ret' = NoTasks
    /\ collected' = <<>>
    /\ report' = None
    /\ UNCHANGED <<args, behav>>

Next ==
    \/ Start
    \/ Pull
    \/ \E ip \in Pulled : ReachStart(ip)
    \/ \E ip \in Pulled : ReachResolve(ip)
    \/ \E ip \in Pulled : ProbeConnect(ip)
    \/ \E ip \in Pulled : ProbeWrite(ip)
    \/ \E ip \in Pulled : ProbeRead(ip)
    \/ \E ip \in Pulled : SnmpWorker(ip)
    \/ \E ip \in Pulled : SnmpJoin(ip)
    \/ Finish

(***************************************************************************)
(* The deadlines of the operations a scan_target future waits in, in       *)
(* milliseconds.                                                           *)
(***************************************************************************)
\* get_zebra_sgd_info: timeout(Duration::from_millis(1500), stream.read(..))
SGD_READ_TIMEOUT_MS == 1500

\* get_pjl_info: timeout(Duration::from_millis(1000), stream.read(..))
PJL_READ_TIMEOUT_MS == 1000

\* get_zpl_hi_info: timeout(Duration::from_millis(1000), stream.read(..))
ZPL_READ_TIMEOUT_MS == 1000

\* get_raw_banner: timeout(Duration::from_millis(500), stream.read(..))
RAW_READ_TIMEOUT_MS == 500

\* get_snmp_info: the session's timeout, Some(Duration::from_secs(1))
SNMP_TIMEOUT_MS == 1000

\* InnerTimeout with the SGD timeout ten times as long.
MutInnerTimeout(p) ==
    CASE p = "sgd"  -> 10 * SGD_READ_TIMEOUT_MS
      [] p = "pjl"  -> PJL_READ_TIMEOUT_MS
      [] p = "zpl"  -> ZPL_READ_TIMEOUT_MS
      [] p = "snmp" -> SNMP_TIMEOUT_MS
      [] p = "raw"  -> RAW_READ_TIMEOUT_MS

\* The timeout probe p wraps its read in (for SNMP: the one of its session).
InnerTimeout(p) ==
    CASE p = "sgd"  -> SGD_READ_TIMEOUT_MS
      [] p = "pjl"  -> PJL_READ_TIMEOUT_MS
      [] p = "zpl"  -> ZPL_READ_TIMEOUT_MS
      [] p = "snmp" -> SNMP_TIMEOUT_MS
      [] p = "raw"  -> RAW_READ_TIMEOUT_MS

\* The operations a scan_target future can be suspended in.
Waits == {"reach", "connect", "write", "read", "snmp"}

\* The deadline of the operation the future of ip waits in: connect is
\* wrapped in timeout(timeout_ms), read in timeout(inner), the exchange of
\* the SNMP session is bounded by its own timeout, and write_all is awaited
\* bare (None).
Deadline(ip) ==
    CASE pc[ip] \in {"reach", "connect"} -> Some(args.timeout_ms)
      [] pc[ip] = "write"                -> None
      [] pc[ip] = "read"                 -> Some(InnerTimeout(cur[ip]))
      [] pc[ip] = "snmp"                 -> Some(SNMP_TIMEOUT_MS)
      [] OTHER                           -> None

(***************************************************************************)
(* The inputs: command lines and networks.                                 *)
(***************************************************************************)
\* Args: the default of --timeout-ms
DefaultTimeoutMs == 2000

Fail(k) == [kind |-> k, data |-> <<>>]

Data(b) == [kind |-> "data", data |-> b]

Octets(b) == [kind |-> "octets", data |-> b]

Descriptor(a, len) == [form |-> "v4/len", addr |-> a, len |-> len]

\* All byte sequences of length 0..n over the bytes bs.
RECURSIVE ByteStrings(_, _)
ByteStrings(bs, n) ==
    IF n = 0 THEN {<<>>}
    ELSE LET shorter == ByteStrings(bs, n - 1) IN
         shorter \cup {<<b>> \o t : b \in bs, t \in {x \in shorter : Len(x) = n - 1}}

\* Some responses: GX430t in quotes with CR LF, the answer of a PJL printer,
\* the ZPL answer a,bb,ccccc,d, a system description, and two banners.
SGD_GX430T == <<34, 71, 88, 52, 51, 48, 116, 34, 13, 10>>

PJL_ANSWER == <<64, 80, 74, 76, 32, 73, 78, 70, 79, 32, 73, 68, 13, 10,
                34, 72, 80, 32, 52, 34, 13, 10>>

ZPL_ANSWER == <<97, 44, 98, 98, 44, 99, 99, 99, 99, 99, 44, 100>>

SNMP_DESCR == <<72, 80, 32, 74, 101, 116>>

BANNER_MODEL_X1 == <<77, 111, 100, 101, 108, 32, 88, 49>>

BANNER_123 == <<49, 50, 51>>

\* A response probe p turns into a model, and one it does not.
Match(p) ==
    CASE p = "sgd"  -> Data(SGD_GX430T)
      [] p = "pjl"  -> Data(PJL_ANSWER)
      [] p = "zpl"  -> Data(ZPL_ANSWER)
      [] p = "snmp" -> Octets(SNMP_DESCR)
      [] p = "raw"  -> Data(BANNER_MODEL_X1)

Mismatch(p) == IF p = "snmp" THEN Fail("other_value") ELSE Data(BANNER_123)

\* The ways the peer can make probe p fail before any response is looked at.
Failures(p) ==
    CASE p \in {"sgd", "pjl", "zpl"} ->
             {Fail(k) : k \in ConnectFailures \cup {"write_err"} \cup ReadFailures}
      [] p = "raw"  -> {Fail(k) : k \in ConnectFailures \cup ReadFailures}
      [] p = "snmp" -> {Fail("session_err"), Fail("get_err")}

\* Every kind of outcome of probe p.
Outcomes(p) ==
    Failures(p) \cup {Match(p), Mismatch(p)}
        \cup (IF p = "snmp" THEN {Octets(<<>>)} ELSE {Data(<<>>)})

\* Probe p either answers with a model or cannot connect.
BaseOutcomes(p) ==
    {Match(p), IF p = "snmp" THEN Fail("get_err") ELSE Fail("connect_err")}

\* A host that answers every probe with a model.
AnswersAll(r) ==
    [reach |-> r, sgd |-> Match("sgd"), pjl |-> Match("pjl"), zpl |-> Match("zpl"),
     snmp |-> Match("snmp"), raw |-> Match("raw")]

\* A reachable host on which every probe but the banner fails.
BannerOnly ==
    [reach |-> "ok", sgd |-> Fail("read_timeout"), pjl |-> Fail("write_err"),
     zpl |-> Data(BANNER_123), snmp |-> Fail("get_err"), raw |-> Match("raw")]

\* The hosts of the scheduling scenarios.
Profiles == {AnswersAll("ok"), AnswersAll("refused"), BannerOnly}

\* The hosts of the single-host scenarios: one probe d with any outcome, the
\* others with a model or a failed connect; and hosts whose port looks closed
\* although they would answer every probe.
HostBehaviours ==
    UNION {[reach : {"ok"},
            sgd   : IF d = "sgd" THEN Outcomes("sgd") ELSE BaseOutcomes("sgd"),
            pjl   : IF d = "pjl" THEN Outcomes("pjl") ELSE BaseOutcomes("pjl"),
            zpl   : IF d = "zpl" THEN Outcomes("zpl") ELSE BaseOutcomes("zpl"),
            snmp  : IF d = "snmp" THEN Outcomes("snmp") ELSE BaseOutcomes("snmp"),
            raw   : IF d = "raw" THEN Outcomes("raw") ELSE BaseOutcomes("raw")]
           : d \in Probes}
        \cup {AnswersAll("refused"), AnswersAll("timeout")}

\* The addresses of a range, as a set.
RECURSIVE RangeSet(_)
RangeSet(range) ==
    IF HasNext(range) THEN {range.start} \cup RangeSet(AfterNext(range)) ELSE {}

\* The networks of the scheduling scenarios: a /32, a /31, a /30 and a /29
\* given by one of its host addresses, and five descriptors that do not parse.
ScanNetworks ==
    {Descriptor(<<10, 0, 0, 1>>, 32), Descriptor(<<10, 0, 0, 6>>, 31),
     Descriptor(<<10, 0, 0, 0>>, 30), Descriptor(<<10, 0, 0, 9>>, 29),
     Descriptor(<<10, 0, 0, 256>>, 30), Descriptor(<<10, 0, 0, 0>>, 33),
     [form |-> "v4", addr |-> <<10, 0, 0, 0>>, len |-> 0],
     [form |-> "v6/len", addr |-> <<0, 0, 0, 0>>, len |-> 64],
     [form |-> "text", addr |-> <<0, 0, 0, 0>>, len |-> 0]}

\* The networks live hosts can be on, for a descriptor.
LiveSets(d) ==
    IF parse(d).ok
    THEN {L \in SUBSET RangeSet(hosts(parse(d).net)) : Cardinality(L) <= MaxLive}
    ELSE {{}}

InitRun ==
    /\ Fresh
    /\ run = 1
    /\ prev = None

\* Scheduling scenarios: several hosts, a concurrency limit of 1..MaxConc.
Init ==
    /\ \E d \in ScanNetworks, k \in 1..MaxConc :
           /\ args = [network |-> d, timeout_ms |-> DefaultTimeoutMs, concurrency |-> k]
           /\ \E L \in LiveSets(d) : behav \in [L -> Profiles]
    /\ InitRun

Spec == Init /\ [][Next]_vars

\* Repeated-run scenarios: the program is run MaxRuns times on a /30 or a
\* /31, each with two hosts.
TwiceNetworks == {Descriptor(<<10, 0, 0, 0>>, 30), Descriptor(<<10, 0, 0, 6>>, 31)}

InitTwice ==
    /\ \E d \in TwiceNetworks, k \in 1..MaxConc :
           /\ args = [network |-> d, timeout_ms |-> DefaultTimeoutMs, concurrency |-> k]
           /\ \E L \in LiveSets(d) : behav \in [L -> Profiles]
    /\ InitRun

NextTwice == Next \/ Rerun

SpecTwice == InitTwice /\ [][NextTwice]_vars

\* A reachable host that accepts every connection and then neither sends
\* anything nor answers SNMP: every read runs into its timeout.
Silent ==
    [reach |-> "ok", sgd |-> Fail("read_timeout"), pjl |-> Fail("read_timeout"),
     zpl |-> Fail("read_timeout"), snmp |-> Fail("get_err"), raw |-> Fail("read_timeout")]

\* A host like Silent that answers the SGD command with GX4.
Terse == [Silent EXCEPT !.sgd = Data(<<71, 88, 52>>)]

\* A host like Silent that sends the banner GX43 on its own.
Late == [Silent EXCEPT !.raw = Data(<<71, 88, 52, 51>>)]

\* The hosts of the progress scenarios.
LiveProfiles == {Silent, Terse, Late, AnswersAll("refused")}

\* Progress scenarios: two enumerated hosts, a concurrency limit of
\* 1..MaxConc.
InitLive ==
    /\ \E d \in TwiceNetworks, k \in 1..MaxConc :
           /\ args = [network |-> d, timeout_ms |-> DefaultTimeoutMs, concurrency |-> k]
           /\ \E L \in LiveSets(d) : behav \in [L -> LiveProfiles]
    /\ InitRun

\* The runtime keeps polling the main task while one of its futures can make
\* progress (an I/O event or an expired timer wakes it), and the blocking
\* pool runs every closure handed to it: a step that stays enabled is taken.
\* write_all of a command of a few bytes returns when the socket's send
\* buffer took them, whether the peer reads them or not.
Fairness ==
    /\ WF_vars(Start)
    /\ WF_vars(Pull)
    /\ WF_vars(\E ip \in Pulled : ReachStart(ip))
    /\ WF_vars(\E ip \in Pulled : ReachResolve(ip))
    /\ WF_vars(\E ip \in Pulled : ProbeConnect(ip))
    /\ WF_vars(\E ip \in Pulled : ProbeWrite(ip))
    /\ WF_vars(\E ip \in Pulled : ProbeRead(ip))
    /\ WF_vars(\E ip \in Pulled : SnmpWorker(ip))
    /\ WF_vars(\E ip \in Pulled : SnmpJoin(ip))
    /\ WF_vars(Finish)

SpecLive == InitLive /\ [][Next]_vars /\ Fairness

\* The one host of the single-host scenarios.
TheHost == <<10, 0, 0, 1>>

OneHostArgs ==
    [network |-> Descriptor(TheHost, 32), timeout_ms |-> DefaultTimeoutMs, concurrency |-> 1]

\* Single-host scenarios: every kind of outcome at every probe.
InitHost ==
    /\ args = OneHostArgs
    /\ \E b \in HostBehaviours : behav = [ip \in {TheHost} |-> b]
    /\ InitRun

SpecHost == InitHost /\ [][Next]_vars

\* Values of --timeout-ms (a u64) that leave a connect the time to succeed:
\* values around the read timeouts of the probes, the default and a large
\* one.
TimeoutsMs ==
    {200, 499, 500, 501, 999, 1000, 1001, 1499, 1500, 1501, DefaultTimeoutMs, 60000}

\* Timeout scenarios: the one host, silent or answering a probe, scanned
\* under each of the timeouts.
InitTimeout ==
    /\ \E t \in TimeoutsMs :
           args = [network |-> Descriptor(TheHost, 32), timeout_ms |-> t, concurrency |-> 1]
    /\ \E b \in LiveProfiles : behav = [ip \in {TheHost} |-> b]
    /\ InitRun

SpecTimeout == InitTimeout /\ [][Next]_vars

\* The bytes responses are drawn from: a 1 space LF " and the two bytes of
\* U+00E9 (each of them ill-formed alone); for PJL: I D = space LF " a; for
\* ZPL: , a space.
SomeBytes == {97, 49, 32, 10, 34, 195, 169}

PjlBytes == {73, 68, 61, 32, 10, 34, 97}

ZplBytes == {44, 97, 32}

\* The fields ZPL responses are joined from: the empty field, a, bb, aaaa,
\* bbbb, ccccc, a field of two spaces, a and a space, and a field of two
\* U+00E9.
ZplFields ==
    {<<>>, <<97>>, <<98, 98>>, <<97, 97, 97, 97>>, <<98, 98, 98, 98>>,
     <<99, 99, 99, 99, 99>>, <<32, 32, 97, 32>>, <<195, 169, 195, 169>>}

RECURSIVE Join(_)
Join(fields) ==
    IF Len(fields) = 1 THEN fields[1]
    ELSE fields[1] \o <<COMMA>> \o Join(Tail(fields))

\* The responses probe p is tried on.
Responses(p) ==
    CASE p = "sgd"  -> ByteStrings(SomeBytes, MaxLen) \cup {SGD_GX430T}
      [] p = "pjl"  -> ByteStrings(PjlBytes, MaxLen) \cup {PJL_ANSWER}
      [] p = "zpl"  -> ByteStrings(ZplBytes, MaxLen) \cup {ZPL_ANSWER}
                         \cup {Join(f) : f \in UNION {[1..k -> ZplFields] : k \in 1..MaxFields}}
      [] p = "snmp" -> ByteStrings(SomeBytes, MaxLen) \cup {SNMP_DESCR}
      [] p = "raw"  -> ByteStrings(SomeBytes, MaxLen) \cup {BANNER_MODEL_X1, BANNER_123}

\* A reachable host that answers probe d with the bytes r and lets no other
\* probe connect.
Answers(d, r) ==
    [p \in Probes \cup {"reach"} |->
        IF p = "reach" THEN "ok"
        ELSE IF p = d THEN (IF p = "snmp" THEN Octets(r) ELSE Data(r))
        ELSE IF p = "snmp" THEN Fail("get_err") ELSE Fail("connect_err")]

\* Response scenarios: one host, one probe that is answered, every response.
InitParse ==
    /\ args = OneHostArgs
    /\ \E d \in Probes : \E r \in Responses(d) :
           behav = [ip \in {TheHost} |-> Answers(d, r)]
    /\ InitRun

SpecParse == InitParse /\ [][Next]_vars

\* The networks of the enumeration scenarios: five addresses under prefix
\* lengths 8, 16 and 22..32.
EnumNetworks ==
    {Descriptor(a, len) :
        a \in {<<10, 0, 0, 0>>, <<192, 168, 1, 0>>, <<192, 168, 1, 77>>,
               <<172, 16, 255, 255>>, <<255, 255, 255, 255>>},
        len \in {8, 16} \cup (22..32)}

\* Enumeration scenarios: a network on which at most the first address
\* enumerated answers, scanned one host at a time.
InitEnum ==
    /\ \E d \in EnumNetworks :
           /\ args = [network |-> d, timeout_ms |-> DefaultTimeoutMs, concurrency |-> 1]
           /\ \E L \in {{}, {hosts(parse(d).net).start}} : behav = [ip \in L |-> BannerOnly]
    /\ InitRun

SpecEnum == InitEnum /\ [][Next]_vars

(***************************************************************************)
(* Properties.                                                             *)
(***************************************************************************)
\* The addresses whose scan_target has returned.
Done == {ip \in Pulled : pc[ip] = "done"}

\* The probes in the order the properties speak of, and their source tags.
Order == <<"sgd", "pjl", "zpl", "snmp", "raw">>

Tags == <<"SGD (Zebra)", "PJL", "ZPL", "SNMP", "Raw Banner">>

\* Whether the i-th probe of Order, were it called on ip, returns a model.
Identifies(ip, i) == IsSome(ProbeResult(Order[i], HostOf(ip)[Order[i]]))

\* C1: a host whose reachability check returned false gets no record and none
\* of the five probes is ever called for it; no probe is called before the
\* check returned true, and every record, returned or collected, is of a
\* host whose check returned true.
C1_ClosedPortNeverProbed ==
    /\ \A ip \in Pulled :
           /\ reach[ip] = "closed" => ret[ip] = None
           /\ reach[ip] # "open" => \A p \in Probes : calls[ip][p] = 0
           /\ IsSome(ret[ip]) => reach[ip] = "open"
    /\ \A i \in 1..Len(collected) : reach[collected[i].ip] = "open"

\* C1, witness: the run ended with an empty report on a host that refuses
\* the reachability connect and would have answered the SGD probe.
C1_Witness ==
    /\ mainPc = "done"
    /\ report = Some(<<>>)
    /\ \E ip \in Done :
           /\ reach[ip] = "closed"
           /\ calls[ip]["reach"] = 1
           /\ IsSome(get_zebra_sgd_info(HostOf(ip).sgd))

\* C2: the record of a reachable host carries the tag of the first probe, in
\* the order SGD, PJL, ZPL, SNMP, RawBanner, whose result is a model (and
\* there is no record when no probe's result is one); a host whose SGD
\* response is acceptable gets "SGD (Zebra)" whatever it would answer to PJL.
C2_FirstModelWins ==
    \A ip \in Done :
        reach[ip] = "open" =>
            /\ IF \E i \in 1..5 : Identifies(ip, i)
               THEN LET first == CHOOSE i \in 1..5 :
                                     Identifies(ip, i) /\ \A j \in 1..(i - 1) : ~Identifies(ip, j)
                    IN  IsSome(ret[ip]) /\ Unwrap(ret[ip]).source = Tags[first]
               ELSE ret[ip] = None
            /\ IsSome(get_zebra_sgd_info(HostOf(ip).sgd)) =>
                   IsSome(ret[ip]) /\ Unwrap(ret[ip]).source = "SGD (Zebra)"

\* C2, witness: a host that answers the SGD probe with "GX430t" in quotes and
\* would satisfy the PJL heuristic got the record Zebra GX430t, SGD (Zebra).
C2_Witness ==
    \E ip \in Done :
        /\ HostOf(ip).sgd = Data(SGD_GX430T)
        /\ IsSome(get_pjl_info(HostOf(ip).pjl))
        /\ ret[ip] = Some([ip |-> ip, source |-> "SGD (Zebra)",
                           model |-> <<90, 101, 98, 114, 97, 32, 71, 88, 52, 51, 48, 116>>])

\* C3: at most args.concurrency hosts have a scan_target that started and has
\* not completed.
C3_AtMostKActive ==
    Cardinality({ip \in Pulled : pc[ip] \notin {"queued", "done"}}) <= args.concurrency

\* C3, witness: with a limit of at least 2, as many hosts as the limit allows
\* are in their scan and more hosts are waiting to be pulled.
C3_Witness ==
    /\ args.concurrency >= 2
    /\ Cardinality({ip \in Pulled : pc[ip] \notin {"queued", "done"}}) = args.concurrency
    /\ HasNext(iter)
    /\ Done # {}

\* C4: the records reported are in strictly ascending order of address.
C4_ReportSorted ==
    IsSome(report) =>
        \A i, j \in 1..Len(Unwrap(report)) :
            i < j => AddrLess(Unwrap(report)[i].ip, Unwrap(report)[j].ip)

\* C4, witness: two records were reported whose hosts completed in the
\* opposite order.
C4_Witness ==
    /\ IsSome(report)
    /\ Len(Unwrap(report)) >= 2
    /\ \E i, j \in 1..Len(collected) : i < j /\ AddrLess(collected[j].ip, collected[i].ip)

\* C5: a second run on the same network reports the same sequence of
\* (address, model, source) records as the first.
C5_SameReportEveryRun ==
    (mainPc = "done" /\ IsSome(prev)) => Unwrap(report) = Unwrap(prev).report

\* C5, witness: the second run reported two records or more, and its hosts
\* completed in another order than in the first run.
C5_Witness ==
    /\ mainPc = "done"
    /\ IsSome(prev)
    /\ Len(Unwrap(report)) >= 2
    /\ collected # Unwrap(prev).collected

\* The network the run scans.
Net == parse(args.network).net

\* C6, as claimed: for every descriptor that parses, the addresses are
\* pulled from net.hosts() in ascending order without repetition, none of
\* them is the network address or the broadcast address of the range, and a
\* /24 such as 192.168.1.0/24 gives exactly .1 through .254.
C6_NeverNetworkOrBroadcast ==
    parse(args.network).ok =>
        /\ \A ip \in Pulled : HasNext(iter) => AddrLess(ip, iter.start)
        /\ \A ip \in Pulled : ip # network(Net) /\ ip # broadcast(Net)
        /\ (mainPc = "done" /\ args.network = Descriptor(<<192, 168, 1, 0>>, 24)) =>
               Pulled = {<<192, 168, 1, o>> : o \in 1..254}

\* C6, amended: the addresses are pulled in ascending order without
\* repetition; under a prefix length of at most 30 neither the network
\* address nor the broadcast address is pulled; under a prefix length of 24
\* or more, once the run is done, exactly the addresses strictly between
\* the two were pulled (for a /24, .1 through .254), and under /31 and /32
\* exactly the addresses from the network to the broadcast address.
C6_HostRange ==
    parse(args.network).ok =>
        /\ \A ip \in Pulled : HasNext(iter) => AddrLess(ip, iter.start)
        /\ Net.prefix_len <= 30 =>
               \A ip \in Pulled :
                   AddrLess(network(Net), ip) /\ AddrLess(ip, broadcast(Net))
        /\ (mainPc = "done" /\ Net.prefix_len \in 24..30) =>
               Pulled = {<<Net.addr[1], Net.addr[2], Net.addr[3], o>> :
                            o \in (network(Net)[4] + 1)..(broadcast(Net)[4] - 1)}
        /\ (mainPc = "done" /\ Net.prefix_len >= 31) =>
               Pulled = {<<Net.addr[1], Net.addr[2], Net.addr[3], o>> :
                            o \in network(Net)[4]..broadcast(Net)[4]}
        /\ (mainPc = "done" /\ args.network = Descriptor(<<192, 168, 1, 0>>, 24)) =>
               /\ Pulled = {<<192, 168, 1, o>> : o \in 1..254}
               /\ Cardinality(Pulled) = 254

\* C6, witness: the scan of 192.168.1.0/24 is done and pulled 254 addresses.
C6_Witness ==
    /\ mainPc = "done"
    /\ args.network = Descriptor(<<192, 168, 1, 0>>, 24)
    /\ Cardinality(Pulled) = 254
    /\ Done = Pulled

\* Some step of the run is possible: main can start, pull an address or
\* finish, a future in the queue can be polled on, or a blocking worker can
\* run.
CanStep ==
    \/ mainPc = "start"
    \/ CanPull
    \/ \E ip \in queue :
           /\ Polls(ip)
           /\ \/ pc[ip] \in {"queued", "reach", "connect", "write", "read"}
              \/ pc[ip] = "snmp" /\ worker[ip] = "finished"
    \/ \E ip \in Pulled : worker[ip] = "running"
    \/ mainPc = "scanning" /\ ~HasNext(iter) /\ queue = {}

\* C7: when the descriptor does not parse, main prints the error and returns
\* at its first step: no address is pulled, no check or probe is called and
\* nothing is reported.  When it parses, main never returns on the error
\* path, it returns only with a report, and as long as it has not returned
\* some step is possible, whatever fails on the hosts.
C7_OnlyParseErrorIsFatal ==
    /\ ~parse(args.network).ok =>
           /\ mainPc \in {"start", "error"}
           /\ Pulled = {} /\ queue = {} /\ collected = <<>>
           /\ report = None
           /\ mainPc = "error" => stderr
    /\ parse(args.network).ok =>
           /\ mainPc # "error" /\ ~stderr
           /\ mainPc = "done" <=> IsSome(report)
           /\ mainPc # "done" => CanStep

\* C7, witness: main returned after the error message for a /33.
C7_Witness ==
    /\ mainPc = "error"
    /\ stderr
    /\ args.network = Descriptor(<<10, 0, 0, 0>>, 33)

\* The ZPL record of ip, once its scan is done.
ZplDone(ip) ==
    /\ ip \in Done
    /\ calls[ip]["zpl"] = 1
    /\ HostOf(ip).zpl.kind = "data"
    /\ Len(HostOf(ip).zpl.data) > 0
    /\ contains(from_utf8_lossy(HostOf(ip).zpl.data), <<COMMA>>)

\* The fields of the ZPL response of ip.
ZplParts(ip) == split(from_utf8_lossy(HostOf(ip).zpl.data), COMMA)

\* "Zebra ZPL (<field>)"
ZplRecord(ip, field) ==
    Some([ip |-> ip, source |-> "ZPL",
          model |-> <<90, 101, 98, 114, 97, 32, 90, 80, 76, 32, 40>> \o trim(field) \o <<41>>])

\* C8, as claimed: the field of a ZPL response with a comma is a longest
\* field and, among the longest, the first; a ZPL record is made of it.
C8_FirstLongestField ==
    \A ip \in Pulled :
        ZplDone(ip) =>
            \E k \in 1..Len(ZplParts(ip)) :
                /\ \A j \in 1..Len(ZplParts(ip)) :
                       StrLen(ZplParts(ip)[j]) <= StrLen(ZplParts(ip)[k])
                /\ \A j \in 1..(k - 1) :
                       StrLen(ZplParts(ip)[j]) < StrLen(ZplParts(ip)[k])
                /\ zpl_longest(from_utf8_lossy(HostOf(ip).zpl.data)) = ZplParts(ip)[k]
                /\ IsSome(ret[ip]) => ret[ip] = ZplRecord(ip, ZplParts(ip)[k])

\* C8, amended: the field of a ZPL response with a comma is a longest field
\* and, among the longest, the LAST; a ZPL record is made of it, and the
\* response a,bb,ccccc,d gives the record Zebra ZPL (ccccc).
C8_LastLongestField ==
    \A ip \in Pulled :
        ZplDone(ip) =>
            /\ \E k \in 1..Len(ZplParts(ip)) :
                   /\ \A j \in 1..Len(ZplParts(ip)) :
                          StrLen(ZplParts(ip)[j]) <= StrLen(ZplParts(ip)[k])
                   /\ \A j \in (k + 1)..Len(ZplParts(ip)) :
                          StrLen(ZplParts(ip)[j]) < StrLen(ZplParts(ip)[k])
                   /\ zpl_longest(from_utf8_lossy(HostOf(ip).zpl.data)) = ZplParts(ip)[k]
                   /\ IsSome(ret[ip]) => ret[ip] = ZplRecord(ip, ZplParts(ip)[k])
            /\ HostOf(ip).zpl.data = <<97, 44, 98, 98, 44, 99, 99, 99, 99, 99, 44, 100>> =>
                   ret[ip] = Some([ip |-> ip, source |-> "ZPL",
                                   model |-> <<90, 101, 98, 114, 97, 32, 90, 80, 76, 32, 40,
                                               99, 99, 99, 99, 99, 41>>])

\* C8, witness: the response aaaa,bbbb, two longest fields, gave the record
\* Zebra ZPL (bbbb).
C8_Witness ==
    \E ip \in Pulled :
        /\ ZplDone(ip)
        /\ HostOf(ip).zpl.data = <<97, 97, 97, 97, 44, 98, 98, 98, 98>>
        /\ ret[ip] = ZplRecord(ip, <<98, 98, 98, 98>>)

\* The banner text of ip: the data received, CR and LF replaced by spaces,
\* trimmed.
BannerText(ip) ==
    trim(replace_chars(from_utf8_lossy(HostOf(ip).raw.data), {13, 10}, <<32>>))

\* The RawBanner probe of ip received data and scan_target returned.
BannerDone(ip) ==
    /\ ip \in Done
    /\ calls[ip]["raw"] = 1
    /\ HostOf(ip).raw.kind = "data"
    /\ Len(HostOf(ip).raw.data) > 0

\* C9: received data is accepted by the RawBanner probe exactly when the
\* banner text is longer than 3 (bytes of UTF-8) and has an alphabetic
\* character; the record of an accepted banner is "Raw: <text>" with source
\* "Raw Banner"; 123 is rejected and Model X1 is accepted.
C9_BannerAccepted ==
    \A ip \in Pulled :
        BannerDone(ip) =>
            /\ IsSome(ret[ip]) <=>
                   /\ StrLen(BannerText(ip)) > 3
                   /\ \E i \in 1..Len(BannerText(ip)) : is_alphabetic(BannerText(ip)[i])
            /\ IsSome(ret[ip]) =>
                   ret[ip] = Some([ip |-> ip, source |-> "Raw Banner",
                                   model |-> <<82, 97, 119, 58, 32>> \o BannerText(ip)])
            /\ HostOf(ip).raw.data = <<49, 50, 51>> => ret[ip] = None
            /\ HostOf(ip).raw.data = <<77, 111, 100, 101, 108, 32, 88, 49>> =>
                   ret[ip] = Some([ip |-> ip, source |-> "Raw Banner",
                                   model |-> <<82, 97, 119, 58, 32,
                                               77, 111, 100, 101, 108, 32, 88, 49>>])

\* C9, witness: the banner Model X1 gave the record Raw: Model X1.
C9_Witness ==
    \E ip \in Pulled :
        /\ BannerDone(ip)
        /\ HostOf(ip).raw.data = <<77, 111, 100, 101, 108, 32, 88, 49>>
        /\ IsSome(ret[ip])
        /\ Unwrap(ret[ip]).source = "Raw Banner"

\* The outcomes of a probe that are a failed connect, write or read, an
\* expired timeout, or a response the heuristic does not accept.
FailsOrMismatches(ip, i) ==
    \/ HostOf(ip)[Order[i]].kind \in
           {"connect_err", "connect_timeout", "write_err", "read_err", "read_timeout",
            "session_err", "get_err", "other_value"}
    \/ ~Identifies(ip, i)

\* C10: on a reachable host whose scan is done, every probe all of whose
\* predecessors failed or mismatched was called, once; a scan that returned
\* no record on a reachable host called all five probes; and a host whose SGD
\* probe fails or mismatches and whose PJL response matches has a PJL record.
C10_FailureAdvancesChain ==
    \A ip \in Done :
        reach[ip] = "open" =>
            /\ \A i \in 1..5 :
                   (\A j \in 1..(i - 1) : FailsOrMismatches(ip, j)) => calls[ip][Order[i]] = 1
            /\ ret[ip] = None => \A p \in Probes : calls[ip][p] = 1
            /\ (FailsOrMismatches(ip, 1) /\ IsSome(get_pjl_info(HostOf(ip).pjl))) =>
                   /\ IsSome(ret[ip])
                   /\ Unwrap(ret[ip]).source = "PJL"
                   /\ Unwrap(ret[ip]).model = Unwrap(get_pjl_info(HostOf(ip).pjl))

\* C10, witness: the read of the SGD probe timed out and the host has a PJL
\* record.
C10_Witness ==
    \E ip \in Done :
        /\ reach[ip] = "open"
        /\ HostOf(ip).sgd.kind = "read_timeout"
        /\ IsSome(ret[ip])
        /\ Unwrap(ret[ip]).source = "PJL"


\* Every enumerated host's scan_target has returned and main has printed the
\* report.
Reported ==
    /\ mainPc = "done"
    /\ IsSome(report)
    /\ \A ip \in RangeSet(hosts(Net)) : ip \in Pulled /\ pc[ip] = "done"

\* The operation the future of ip waits in carries a deadline.
Bounded(ip) == pc[ip] \in Waits => IsSome(Deadline(ip))

\* C11, as claimed: every host's orchestration terminates and the run
\* produces its report, silent peers included, because connect, read and
\* write are each bounded by a deadline.
C11_TerminatesByDeadlines ==
    /\ <>Reported
    /\ [](\A ip \in Pulled : Bounded(ip))

\* C11, amended: with a limit K >= 1 and a finite host set every host's
\* orchestration terminates and the run produces its report, silent peers
\* included; connect, read and the SNMP exchange are bounded by a deadline,
\* the write of the command is the one operation awaited without one.
C11_Terminates ==
    /\ <>Reported
    /\ [](\A ip \in Pulled : pc[ip] # "write" => Bounded(ip))

\* C11, witness: the run reported after a silent peer was taken through every
\* probe, the write of each command included.
C11_Witness ==
    /\ Reported
    /\ \E ip \in Pulled :
           /\ HostOf(ip) = Silent
           /\ \A p \in Probes : calls[ip][p] = 1
           /\ ret[ip] = None


\* The i-th probe of the order was called on ip and has returned.
HasReturned(ip, i) ==
    /\ calls[ip][Order[i]] > 0
    /\ cur[ip] # Order[i] \/ pc[ip] = "done"

\* What the i-th probe of the order returns on ip.
Outcome(ip, i) == ProbeResult(Order[i], HostOf(ip)[Order[i]])

\* C12: a probe is invoked only after every earlier probe in the order SGD,
\* PJL, ZPL, SNMP, RawBanner has returned None (so RawBanner only after all
\* four others returned None), and once a probe has returned a model no later
\* probe is invoked for that host.
C12_ProbesInOrder ==
    \A ip \in Pulled : \A i \in 1..5 :
        /\ calls[ip][Order[i]] > 0 =>
               \A j \in 1..(i - 1) : HasReturned(ip, j) /\ Outcome(ip, j) = None
        /\ (HasReturned(ip, i) /\ IsSome(Outcome(ip, i))) =>
               \A j \in (i + 1)..5 : calls[ip][Order[j]] = 0

\* C12, witness: RawBanner is being tried on a host on which SGD, PJL, ZPL
\* and SNMP were called and returned None.
C12_Witness ==
    \E ip \in Pulled :
        /\ calls[ip]["raw"] = 1
        /\ pc[ip] = "read"
        /\ \A j \in 1..4 : HasReturned(ip, j) /\ Outcome(ip, j) = None


\* The steps of scan_target, in order: the reachability check and the probes.
Steps == <<"reach", "sgd", "pjl", "zpl", "snmp", "raw">>

\* How often step i was started on ip.
Started(ip, i) == calls[ip][Steps[i]]

\* C13: the steps of one host are strictly sequential: when a step has
\* started, every step before it has started once and holds no stream any
\* more (its connection is resolved and released), and the host's future
\* holds at most one stream, connecting or open, the one of the step it is
\* in.
C13_OneConnectionAtATime ==
    \A ip \in Pulled :
        /\ Cardinality(conn[ip]) <= 1
        /\ \A c \in conn[ip] : c.of = Owner(ip)
        /\ \A i \in 1..6 : Started(ip, i) > 0 =>
               \A j \in 1..(i - 1) :
                   Started(ip, j) = 1 /\ \A c \in conn[ip] : c.of # Steps[j]

\* C13, witness: a probe holds an open stream on a host whose reachability
\* connect succeeded and on which an earlier probe had connected too.
C13_Witness ==
    \E ip \in Pulled :
        /\ reach[ip] = "open"
        /\ conn[ip] = {[of |-> "pjl", state |-> "open"]}
        /\ HostOf(ip)["sgd"].kind \notin ConnectFailures


\* The indices of the Vec v that hold a record of address ip.
RecordsOf(v, ip) == {i \in 1..Len(v) : v[i].ip = ip}

\* The Vec v holds, for every pulled address, the record its scan_target
\* returned, once, and nothing else.
ExactlyTheReturned(v) ==
    /\ \A ip \in Pulled :
           IF IsSome(ret[ip])
           THEN \E i \in 1..Len(v) : RecordsOf(v, ip) = {i} /\ v[i] = Unwrap(ret[ip])
           ELSE RecordsOf(v, ip) = {}
    /\ \A i \in 1..Len(v) : v[i].ip \in Pulled

\* C14: every enumerated host is orchestrated exactly once per run; a record
\* is in the results only after the scan_target of its host has returned it;
\* and when the report is produced the results hold exactly one record for
\* each host whose scan_target returned one and none for any other host.
C14_ExactlyOnceNoneLost ==
    /\ \A ip \in Pulled : calls[ip]["reach"] <= 1
    /\ \A i \in 1..Len(collected) :
           LET ip == collected[i].ip IN
           ip \in Pulled /\ pc[ip] = "done" /\ ret[ip] = Some(collected[i])
    /\ mainPc = "done" =>
           /\ Pulled = RangeSet(hosts(Net))
           /\ \A ip \in Pulled : pc[ip] = "done" /\ calls[ip]["reach"] = 1
           /\ ExactlyTheReturned(collected)
           /\ ExactlyTheReturned(Unwrap(report))

\* C14, witness: the report is produced with two records, on a network with
\* hosts that returned none.
C14_Witness ==
    /\ mainPc = "done"
    /\ Len(Unwrap(report)) = 2
    /\ \E ip \in Pulled : ret[ip] = None


\* C15: no retries: in one run, for every host, the reachability check and
\* each of the five probes is attempted at most once, and each attempt begins
\* at most one connect and at most one read; a failure or timeout is not
\* followed by another try.
C15_NoRetries ==
    \A ip \in Pulled :
        /\ \A s \in Probes \cup {"reach"} :
               calls[ip][s] <= 1 /\ io[ip].connect[s] <= calls[ip][s]
        /\ \A p \in Probes : io[ip].read[p] <= calls[ip][p]

\* C15, witness: scan_target has returned on a host whose SGD read timed out
\* and whose PJL connect failed; each was tried once and the chain went on.
C15_Witness ==
    \E ip \in Pulled :
        /\ pc[ip] = "done"
        /\ HostOf(ip)["sgd"].kind = "read_timeout"
        /\ HostOf(ip)["pjl"].kind = "connect_err"
        /\ io[ip].connect["reach"] = 1
        /\ io[ip].connect["sgd"] = 1 /\ io[ip].read["sgd"] = 1
        /\ io[ip].connect["pjl"] = 1 /\ io[ip].read["pjl"] = 0
        /\ calls[ip]["zpl"] = 1


C17_TrimmedFieldOver3 ==
    \A ip \in Pulled :
        (ZplDone(ip) /\ IsSome(ret[ip])) =>
            StrLen(trim(zpl_longest(from_utf8_lossy(HostOf(ip).zpl.data)))) > 3


\* The PJL probe of ip received data and scan_target returned.
PjlDone(ip) ==
    /\ ip \in Done
    /\ calls[ip]["pjl"] = 1
    /\ HostOf(ip).pjl.kind = "data"
    /\ Len(HostOf(ip).pjl.data) > 0

\* The PJL response of ip, decoded.
PjlText(ip) == from_utf8_lossy(HostOf(ip).pjl.data)

\* The lines of the PJL response of ip after ID=, then ID =, then every
\* double quote were removed and the rest was trimmed.
PjlLines(ip) ==
    lines(trim(replace(replace(replace(PjlText(ip), <<73, 68, 61>>, <<>>),
                               <<73, 68, 32, 61>>, <<>>), <<34>>, <<>>)))

\* Line k is the first line of ls that is not blank.
FirstNonBlank(ls, k) ==
    /\ k \in 1..Len(ls)
    /\ trim(ls[k]) # <<>>
    /\ \A j \in 1..(k - 1) : trim(ls[j]) = <<>>

\* The record of a PJL model.
PjlRecord(ip, model) == Some([ip |-> ip, source |-> "PJL", model |-> model])

\* C18, as claimed: the PJL probe returns a model only if the response
\* contains ID, and the model it returns is the first non-blank line of the
\* response after the removal of ID=, ID = and the double quotes.
C18_FirstNonBlankLine ==
    \A ip \in Pulled :
        (PjlDone(ip) /\ IsSome(ret[ip])) =>
            /\ contains(PjlText(ip), <<73, 68>>)
            /\ \E k \in 1..Len(PjlLines(ip)) :
                   /\ FirstNonBlank(PjlLines(ip), k)
                   /\ ret[ip] = PjlRecord(ip, PjlLines(ip)[k])

\* C18, amended: the PJL probe returns a model only if the response contains
\* ID (and then always); the model is the first non-blank line of the
\* response after the removal of ID=, ID = and the double quotes, or the text
\* Unknown PJL when no line is left that is not blank.
C18_FirstNonBlankLineOrUnknown ==
    \A ip \in Pulled :
        PjlDone(ip) =>
            /\ IsSome(ret[ip]) <=> contains(PjlText(ip), <<73, 68>>)
            /\ IsSome(ret[ip]) =>
                   \/ \E k \in 1..Len(PjlLines(ip)) :
                          /\ FirstNonBlank(PjlLines(ip), k)
                          /\ ret[ip] = PjlRecord(ip, PjlLines(ip)[k])
                   \/ /\ \A k \in 1..Len(PjlLines(ip)) : trim(PjlLines(ip)[k]) = <<>>
                      /\ ret[ip] = PjlRecord(ip, <<85, 110, 107, 110, 111, 119, 110, 32,
                                                   80, 74, 76>>)

\* C18, witness: the response ID= gave the model Unknown PJL.
C18_Witness ==
    \E ip \in Pulled :
        /\ PjlDone(ip)
        /\ HostOf(ip).pjl.data = <<73, 68, 61>>
        /\ ret[ip] = PjlRecord(ip, <<85, 110, 107, 110, 111, 119, 110, 32, 80, 74, 76>>)


\* A step of the scan_target future of ip, or of its blocking worker.
HostStep(ip) ==
    \/ ReachStart(ip)
    \/ ReachResolve(ip)
    \/ ProbeConnect(ip)
    \/ ProbeWrite(ip)
    \/ ProbeRead(ip)
    \/ SnmpWorker(ip)
    \/ SnmpJoin(ip)

\* The future of ip waits for its SNMP exchange, which has not ended.
AwaitsSnmp(ip) == ip \in queue /\ pc[ip] = "snmp" /\ worker[ip] = "running"

\* C19: while the future of one host waits for its SNMP exchange on the
\* blocking worker, every other host in flight can take its next step (once
\* buffer_unordered has filled its queue, which it does before it polls).
C19_SnmpBlocksNobody ==
    \A ip \in Pulled :
        AwaitsSnmp(ip) =>
            \A other \in queue \ {ip} : CanPull \/ ENABLED HostStep(other)

\* C19, witness: a host waits for its SNMP exchange while another host in
\* flight is in the read of its RawBanner probe, SNMP behind it.
C19_Witness ==
    \E ip \in Pulled : \E other \in queue \ {ip} :
        /\ AwaitsSnmp(ip)
        /\ pc[other] = "read"
        /\ cur[other] = "raw"


\* C20, as claimed: every record scan_target returns carries a non-empty
\* model text: with the source SGD (Zebra) the text after the prefix
\* "Zebra " is non-empty, with the source SNMP the model is non-empty,
\* whatever the response was.
C20_ModelNonEmpty ==
    \A ip \in Pulled :
        IsSome(ret[ip]) =>
            LET r == Unwrap(ret[ip]) IN
            /\ r.model # <<>>
            /\ r.source = "SGD (Zebra)" =>
                   /\ Len(r.model) > 6
                   /\ SubSeq(r.model, 1, 6) = <<90, 101, 98, 114, 97, 32>>
            /\ r.source = "SNMP" => r.model # <<>>

====
